---------------------------- MODULE Spec2Model ----------------------------
(***************************************************************************)
(* A model of the UDP client of homebridge-ch-ac: the Device class of      *)
(* app/deviceFactory.js and the EncryptionService of                       *)
(* app/encryptionService.js.                                               *)
(*                                                                         *)
(* JavaScript objects are records whose DOMAIN is the set of properties    *)
(* present; a string-valued property that is read while absent yields      *)
(* Undefined.  Text (a datagram, a plaintext) is a record: [json |-> o]    *)
(* for the serialisation of the object o, [raw |-> s] for text that is not *)
(* JSON.  A ciphertext is a record naming the algorithm, the key and the   *)
(* plaintext it was made from; decryption succeeds only with the same      *)
(* algorithm and key (and, for GCM, the tag made with them).               *)
(***************************************************************************)
EXTENDS Integers, Sequences, FiniteSets, TLC

VARIABLES
    device,     \* this.device
    timers,     \* number of intervals started by setInterval and running
    sock,       \* the local socket: "idle", "binding", "retry", "listening"
    out,        \* the datagrams socket.send was given by the last step
    calls,      \* the caller callbacks invoked by the last step, in order
    exc,        \* where an exception of the last step went: "none", "caller", "uncaught"
    ev,         \* the event the last step handled
    hist        \* what has happened so far in this session

vars == <<device, timers, sock, out, calls, exc, ev, hist>>

----------------------------------------------------------------------------
(* Bounds of the model *)

\* setInterval is never cleared: the number of running intervals is capped
MaxTimers == 2

----------------------------------------------------------------------------
(* Values *)

\* JavaScript's undefined, where a string is expected
Undefined == "undefined"

\* device.port before _setDevice: undefined, which socket.send reads as 0
NoPort == 0

Has(o, f) == f \in DOMAIN o

\* o[f] of JavaScript for a string-valued property
Get(o, f) == IF f \in DOMAIN o THEN o[f] ELSE Undefined

\* truthiness of a string-valued property
Truthy(s) == s # Undefined /\ s # ""

\* an index that is off by one
AtNext(a, i) == IF i + 1 \in DOMAIN a THEN a[i + 1] ELSE Undefined

\* a[i] of JavaScript, i counted from 1 here
At(a, i) == IF i \in DOMAIN a THEN a[i] ELSE Undefined

\* obj[k] = v
Put(obj, k, v) == [x \in (DOMAIN obj) \cup {k} |-> IF x = k THEN v ELSE obj[x]]

\* String.prototype.startsWith over strings held as sequences of characters
StartsWith(s, prefix) ==
    /\ Len(s) >= Len(prefix)
    /\ SubSeq(s, 1, Len(prefix)) = prefix

\* JSON.stringify and JSON.parse: parse fails on text that is not JSON
Stringify(o) == [json |-> o]

IsJson(s) == Has(s, "json")

Parse(s) == s.json

\* results of a call that may throw
Ok(v) == [ok |-> TRUE, val |-> v]

Throw(e) == [ok |-> FALSE, err |-> e]

----------------------------------------------------------------------------
(* app/encryptionService.js *)

defaultKey == "a3K8Bx%2r8Y7#xDh"

defaultKey_v2 == "{yxAHAY_Lm6pbC/<"

\* the authentication tag GCM computes over a plaintext under a key (the IV
\* and the additional data are fixed), or its first len bytes: getAuthTag
\* returns all 16
AuthTag(key, str) == [key |-> key, str |-> str, len |-> 16]

\* the tag lengths setAuthTag takes when createDecipheriv was given no
\* authTagLength; final() then compares that many bytes
TagLengths == {4, 8, 12, 13, 14, 15, 16}

\* whether final() finds the tag to be the one of the ciphertext c under key
TagVerifies(tag, key, c) == tag.key = key /\ tag.str = c.str

Cipher(alg, key, str) == [alg |-> alg, key |-> key, str |-> str]

decrypt(input, key) ==
    LET k == IF key = Undefined THEN defaultKey ELSE key
    IN  IF ~Has(input, "pack") THEN Throw("TypeError")
        ELSE LET c == input.pack
             IN  IF c.alg = "ecb" /\ c.key = k
                 THEN IF IsJson(c.str) THEN Ok(Parse(c.str))
                      ELSE Throw("SyntaxError")
                 ELSE Throw("bad decrypt")

encrypt(output, key) ==
    LET k == IF key = Undefined THEN defaultKey ELSE key
    IN  Cipher("ecb", k, Stringify(output))

\* the default of key names genericKey_v2, which nothing declares
decrypt_v2(input, tag, key) ==
    IF key = Undefined THEN Throw("ReferenceError")
    ELSE IF tag.len \notin TagLengths THEN Throw("Invalid authentication tag length")
    ELSE IF ~Has(input, "pack") THEN Throw("TypeError")
    ELSE LET c == input.pack
         IN  IF c.alg = "gcm" /\ c.key = key /\ TagVerifies(tag, key, c)
             THEN IF IsJson(c.str) THEN Ok(Parse(c.str))
                  ELSE Throw("SyntaxError")
             ELSE Throw("auth failed")

encrypt_v2(output, key) ==
    IF key = Undefined THEN Throw("ReferenceError")
    ELSE LET str == Stringify(output)
         IN  Ok([pack |-> Cipher("gcm", key, str), tag |-> AuthTag(key, str)])

----------------------------------------------------------------------------
(* app/commandEnums.js: the command table (required by deviceFactory.js) *)

cmd ==
    [ power           |-> [code |-> "Pow"],
      mode            |-> [code |-> "Mod"],
      temperatureUnit |-> [code |-> "TemUn"],
      temperature     |-> [code |-> "SetTem"],
      fanSpeed        |-> [code |-> "WdSpd"],
      swingVert       |-> [code |-> "SwUpDn"],
      TemSen          |-> [code |-> "TemSen"] ]

\* Object.keys(cmd).map(key => cmd[key].code), in the table's order
cmdCodes == <<"Pow", "Mod", "TemUn", "SetTem", "WdSpd", "SwUpDn", "TemSen">>

\* cmd.temperatureUnit.value.celsius
celsius == "0"

----------------------------------------------------------------------------
(* app/deviceFactory.js: the session *)

\* options.host, and an address that is not it
host == "192.168.1.10"

otherAddress == "192.168.1.66"

\* the port the scan is sent to
DiscoveryPort == 7000

\* host.split('.'), each part a sequence of characters
hostParts == << <<"1", "9", "2">>, <<"1", "6", "8">>, <<"1">>, <<"1", "0">> >>

\* the value of a decimal digit, NaN for any other character
NaN == -1

DigitValue(c) ==
    CASE c = "0" -> 0 [] c = "1" -> 1 [] c = "2" -> 2 [] c = "3" -> 3
      [] c = "4" -> 4 [] c = "5" -> 5 [] c = "6" -> 6 [] c = "7" -> 7
      [] c = "8" -> 8 [] c = "9" -> 9 [] OTHER -> NaN

\* the digits of s from position i on, as far as they go, after the value acc
RECURSIVE ParseDigits(_, _, _)
ParseDigits(s, i, acc) ==
    IF i > Len(s) \/ DigitValue(s[i]) = NaN THEN acc
    ELSE ParseDigits(s, i + 1, 10 * acc + DigitValue(s[i]))

\* parseInt of a string without sign or blanks: its leading digits, NaN
\* when there is none or the argument is undefined
parseInt(s) ==
    IF s = Undefined THEN NaN
    ELSE IF Len(s) = 0 \/ DigitValue(s[1]) = NaN THEN NaN
    ELSE ParseDigits(s, 1, 0)

\* a port that takes the third part of the address
optionsPortThirdPart(parts) ==
    LET n == parseInt(At(parts, 3)) IN IF n = NaN THEN NaN ELSE 8000 + n

\* options.port = 8000 + parseInt(options.host.split('.')[3])
optionsPort(parts) ==
    LET n == parseInt(At(parts, 4)) IN IF n = NaN THEN NaN ELSE 8000 + n

EmptyObj == [x \in {} |-> Undefined]

\* this.device = {bound: false, props: {}}
InitDevice ==
    [ id |-> Undefined, name |-> Undefined, address |-> Undefined,
      port |-> NoPort, bound |-> FALSE, key |-> Undefined,
      encryptionV2 |-> FALSE, props |-> EmptyObj ]

\* socket.send(buffer, 0, length, port, address): a port of 0 is refused
Datagram(port, address, data) == [port |-> port, address |-> address, data |-> data]

PortOk(port) == port > 0 /\ port < 65536

\* the outer object of every request
Request(i, pack) == [cid |-> "app", i |-> i, t |-> "pack", uid |-> 0, pack |-> pack]

WithTag(request, tag) == [f \in (DOMAIN request) \cup {"tag"} |->
                            IF f = "tag" THEN tag ELSE request[f]]

\* a _setDevice that records the discovery port whatever port the reply came from
_setDeviceDiscoveryPort(d, id, name, address, port) ==
    [d EXCEPT !.id = id, !.name = name, !.address = address,
              !.port = DiscoveryPort,
              !.bound = FALSE, !.props = EmptyObj]

_setDevice(d, id, name, address, port) ==
    [d EXCEPT !.id = id, !.name = name, !.address = address, !.port = port,
              !.bound = FALSE, !.props = EmptyObj]

\* the datagram _sendBindRequest sends, or the exception it throws
_sendBindRequest(d) ==
    LET message == [mac |-> d.id, t |-> "bind", uid |-> 0]
        legacy  == encrypt(message, Undefined)
        v2      == encrypt_v2(message, Undefined)
    IN  IF d.encryptionV2 /\ ~v2.ok THEN Throw(v2.err)
        ELSE LET request == IF d.encryptionV2
                            THEN WithTag(Request(1, v2.val.pack), v2.val.tag)
                            ELSE Request(1, legacy)
             IN  IF PortOk(d.port)
                 THEN Ok(Datagram(d.port, d.address, Stringify(request)))
                 ELSE Throw("ERR_SOCKET_BAD_PORT")

_confirmBinding(d, id, key) == [d EXCEPT !.bound = TRUE, !.key = key]

\* a _sendRequest that leaves the tag out of the envelope
_sendRequestUntagged(d, message, address, port) ==
    LET v2 == encrypt_v2(message, d.key)
    IN  IF d.encryptionV2 /\ ~v2.ok THEN Throw(v2.err)
        ELSE LET request == IF d.encryptionV2
                            THEN Request(0, v2.val.pack)
                            ELSE Request(0, encrypt(message, d.key))
             IN  IF PortOk(port)
                 THEN Ok(Datagram(port, address, Stringify(request)))
                 ELSE Throw("ERR_SOCKET_BAD_PORT")

\* the datagram _sendRequest sends, or the exception it throws
_sendRequest(d, message, address, port) ==
    LET v2 == encrypt_v2(message, d.key)
    IN  IF d.encryptionV2 /\ ~v2.ok THEN Throw(v2.err)
        ELSE LET request == IF d.encryptionV2
                            THEN WithTag(Request(0, v2.val.pack), v2.val.tag)
                            ELSE Request(0, encrypt(message, d.key))
             IN  IF PortOk(port)
                 THEN Ok(Datagram(port, address, Stringify(request)))
                 ELSE Throw("ERR_SOCKET_BAD_PORT")

_requestDeviceStatus(d) ==
    _sendRequest(d, [cols |-> cmdCodes, mac |-> d.id, t |-> "status"],
                 d.address, d.port)

_sendCommand(d, commands, values) ==
    _sendRequest(d, [opt |-> commands, p |-> values, t |-> "cmd"],
                 d.address, d.port)

\* cols.forEach((col, i) => props[col] = values[i]), from position i on
RECURSIVE ForEachAssign(_, _, _, _)
ForEachAssign(props, cols, values, i) ==
    IF i > Len(cols) THEN props
    ELSE ForEachAssign(Put(props, cols[i], At(values, i)), cols, values, i + 1)

\* what a step leaves behind: the session, the running intervals, the
\* datagrams sent, the callbacks invoked, where an exception went, and the
\* branch of the handler that ran
Outcome(d, tm, o, c, e, b) ==
    [device |-> d, timers |-> tm, out |-> o, calls |-> c, exc |-> e, branch |-> b]

\* pack.ver && pack.ver.startsWith('V2.')
VersionIsV2(pack) == Has(pack, "ver") /\ StartsWith(pack.ver, <<"V", "2", ".">>)

\* a dev branch that takes the identity from the inner cid whatever the version
HandleDevInnerCid(d, tm, message, pack, rinfo) ==
    LET d1  == IF VersionIsV2(pack) THEN [d EXCEPT !.encryptionV2 = TRUE] ELSE d
        d2  == _setDevice(d1, Get(pack, "cid"), Get(pack, "name"),
                          rinfo.address, rinfo.port)
        snd == _sendBindRequest(d2)
    IN  IF snd.ok THEN Outcome(d2, tm, <<snd.val>>, <<>>, "none", "dev")
        ELSE Outcome(d2, tm, <<>>, <<"onError">>, "none", "dev")

\* the dev branch of _handleResponse
HandleDev(d, tm, message, pack, rinfo) ==
    LET v2  == VersionIsV2(pack)
        d1  == IF v2 THEN [d EXCEPT !.encryptionV2 = TRUE] ELSE d
        cid == IF v2 THEN Get(pack, "cid") ELSE Get(message, "cid")
        d2  == _setDevice(d1, cid, Get(pack, "name"), rinfo.address, rinfo.port)
        snd == _sendBindRequest(d2)
    IN  IF snd.ok THEN Outcome(d2, tm, <<snd.val>>, <<>>, "none", "dev")
        ELSE Outcome(d2, tm, <<>>, <<"onError">>, "none", "dev")

\* the bindok branch: setInterval starts one more interval
HandleBindok(d, tm, message, pack) ==
    Outcome(_confirmBinding(d, Get(message, "cid"), Get(pack, "key")),
            tm + 1, <<>>, <<"onConnected">>, "none", "bindok")

\* a dat branch that keeps only the codes of the reply
HandleDatReplace(d, tm, pack) ==
    IF ~Has(pack, "cols") \/ (Len(pack.cols) > 0 /\ ~Has(pack, "dat"))
    THEN Outcome(d, tm, <<>>, <<"onError">>, "none", "error")
    ELSE Outcome([d EXCEPT !.props =
                        ForEachAssign(EmptyObj, pack.cols,
                                      IF Has(pack, "dat") THEN pack.dat ELSE <<>>, 1)],
                 tm, <<>>, <<"onStatus">>, "none", "dat")

\* the dat branch: forEach of a missing cols throws, and so does reading
\* position 0 of a missing dat
HandleDat(d, tm, pack) ==
    IF ~Has(pack, "cols") \/ (Len(pack.cols) > 0 /\ ~Has(pack, "dat"))
    THEN Outcome(d, tm, <<>>, <<"onError">>, "none", "error")
    ELSE Outcome([d EXCEPT !.props =
                        ForEachAssign(d.props, pack.cols,
                                      IF Has(pack, "dat") THEN pack.dat ELSE <<>>, 1)],
                 tm, <<>>, <<"onStatus">>, "none", "dat")

\* a res branch that prefers p to val
HandleResPFirst(d, tm, pack) ==
    IF ~Has(pack, "opt")
       \/ (Len(pack.opt) > 0 /\ ~Has(pack, "val") /\ ~Has(pack, "p"))
    THEN Outcome(d, tm, <<>>, <<"onError">>, "none", "error")
    ELSE Outcome([d EXCEPT !.props =
                        ForEachAssign(d.props, pack.opt,
                                      IF Has(pack, "p") THEN pack.p
                                      ELSE IF Has(pack, "val") THEN pack.val ELSE <<>>, 1)],
                 tm, <<>>, <<"onUpdate">>, "none", "res")

\* the res branch: val when the reply has one, p otherwise
HandleRes(d, tm, pack) ==
    IF ~Has(pack, "opt")
       \/ (Len(pack.opt) > 0 /\ ~Has(pack, "val") /\ ~Has(pack, "p"))
    THEN Outcome(d, tm, <<>>, <<"onError">>, "none", "error")
    ELSE Outcome([d EXCEPT !.props =
                        ForEachAssign(d.props, pack.opt,
                                      IF Has(pack, "val") THEN pack.val
                                      ELSE IF Has(pack, "p") THEN pack.p ELSE <<>>, 1)],
                 tm, <<>>, <<"onUpdate">>, "none", "res")

\* a filter that lets every sender through
FromAnyone(rinfo) == TRUE

\* the address filter at the head of _handleResponse
FromHost(rinfo) == rinfo.address = host

\* the branch conditions of _handleResponse
IsDev(d, pack) == Get(pack, "t") = "dev"

IsBindok(d, pack) == Get(pack, "t") = "bindok" /\ Truthy(d.id)

\* a dat condition that forgets the bound flag
IsDatUnbound(d, pack) == Get(pack, "t") = "dat"

IsDat(d, pack) == Get(pack, "t") = "dat" /\ d.bound

IsRes(d, pack) == Get(pack, "t") = "res" /\ d.bound

\* the body of the try block of _handleResponse, message being the parsed datagram
HandleMessage(d, tm, message, rinfo) ==
    LET dec == IF ~Has(message, "tag") THEN decrypt(message, d.key)
               ELSE decrypt_v2(message, message.tag, d.key)
    IN  IF ~dec.ok THEN Outcome(d, tm, <<>>, <<"onError">>, "none", "unreadable")
        ELSE LET pack == dec.val
             IN  IF IsDev(d, pack) THEN HandleDev(d, tm, message, pack, rinfo)
                 ELSE IF IsBindok(d, pack) THEN HandleBindok(d, tm, message, pack)
                 ELSE IF IsDat(d, pack) THEN HandleDat(d, tm, pack)
                 ELSE IF IsRes(d, pack) THEN HandleRes(d, tm, pack)
                 ELSE Outcome(d, tm, <<>>, <<"onError">>, "none", "unexpected")

\* JSON.parse(msg + '') stands before the try block
_handleResponse(d, tm, msg, rinfo) ==
    IF ~FromHost(rinfo) THEN Outcome(d, tm, <<>>, <<>>, "none", "discard")
    ELSE IF ~IsJson(msg) THEN Outcome(d, tm, <<>>, <<>>, "uncaught", "throw")
    ELSE HandleMessage(d, tm, Parse(msg), rinfo)

----------------------------------------------------------------------------
(* The datagrams the network may deliver *)

\* a key the device issues in bindok
sessionKey == "0123456789abcdef"

VerV2 == <<"V", "2", ".", "1", ".", "0">>

VerV1 == <<"V", "1", ".", "0", ".", "0">>

DevPacks ==
    {[t |-> "dev", cid |-> "cidP", name |-> "AC", ver |-> v] : v \in {VerV2, VerV1}}
    \cup {[t |-> "dev", cid |-> "cidP", name |-> "AC"]}

BindokPacks == {[t |-> "bindok", key |-> sessionKey], [t |-> "bindok"]}

DatPacks ==
    { [t |-> "dat", cols |-> <<"Pow", "Mod">>, dat |-> <<"1", "2">>],
      [t |-> "dat", cols |-> <<"Pow", "Pow">>, dat |-> <<"1", "2">>],
      [t |-> "dat", cols |-> <<"Mod", "Pow">>, dat |-> <<"1">>],
      [t |-> "dat", cols |-> <<>>],
      [t |-> "dat", cols |-> <<"Mod">>],
      [t |-> "dat"] }

ResPacks ==
    { [t |-> "res", opt |-> <<"Pow">>, val |-> <<"2">>],
      [t |-> "res", opt |-> <<"Pow">>, p |-> <<"2">>],
      [t |-> "res", opt |-> <<"Pow", "Mod">>, val |-> <<"1">>, p |-> <<"2", "2">>],
      [t |-> "res", opt |-> <<"Pow", "Pow">>, val |-> <<"1", "2">>],
      [t |-> "res", opt |-> <<"Pow">>],
      [t |-> "res"] }

OtherPacks == {[t |-> "status", mac |-> "cidP"], [cid |-> "cidP"]}

Packs == DevPacks \cup BindokPacks \cup DatPacks \cup ResPacks \cup OtherPacks

Plaintexts == {Stringify(p) : p \in Packs} \cup {[raw |-> "not json"]}

\* what a peer may put in pack: either scheme, under a key it may hold
Ciphertexts ==
    {Cipher("ecb", k, s) : k \in {defaultKey, sessionKey}, s \in Plaintexts}
    \cup {Cipher("gcm", k, s) : k \in {defaultKey_v2, sessionKey}, s \in Plaintexts}

\* a tag that is not the one the ciphertext was made with
CorruptedTag(c) == AuthTag("corrupted", c.str)

\* the first 4 bytes of the tag the ciphertext was made with
TruncatedTag(c) == [AuthTag(c.key, c.str) EXCEPT !.len = 4]

Envelope(pack) == [t |-> "pack", i |-> 0, uid |-> 0, pack |-> pack]

WithCid(message, cid) == [f \in (DOMAIN message) \cup {"cid"} |->
                            IF f = "cid" THEN cid ELSE message[f]]

\* the outer objects: legacy ones carry no tag, authenticated ones carry
\* their tag or a corrupted one; one object has no pack at all
Messages ==
    LET bare == {Envelope(c) : c \in {x \in Ciphertexts : x.alg = "ecb"}}
                \cup UNION {{WithTag(Envelope(c), AuthTag(c.key, c.str)),
                             WithTag(Envelope(c), CorruptedTag(c))} :
                            c \in {x \in Ciphertexts : x.alg = "gcm"}}
    IN  {WithCid(m, "cidM") : m \in bare}
        \cup {m \in bare : m.pack.alg = "ecb" /\ m.pack.key = defaultKey
                           /\ IsJson(m.pack.str) /\ Get(Parse(m.pack.str), "t") = "dev"}
        \cup {[t |-> "pack", cid |-> "cidM"]}

Datagrams == {Stringify(m) : m \in Messages} \cup {[raw |-> "not json"]}

\* a port a device may answer from, other than the discovery port
EphemeralPort == 50000

\* the senders: the configured host, from the discovery port or from another
\* port, and another machine
Rinfos ==
    {[address |-> host, port |-> p] : p \in {DiscoveryPort, EphemeralPort}}
    \cup {[address |-> otherAddress, port |-> DiscoveryPort]}

----------------------------------------------------------------------------
(* The state machine *)

\* the inner type of a datagram the session sent ("scan" is sent bare)
Kind(dg) ==
    LET m == Parse(dg.data)
    IN  IF Has(m, "pack") THEN Parse(m.pack.str).t ELSE m.t

Sends(o, kind) == \E i \in DOMAIN o : Kind(o[i]) = kind

NoPack == [unread |-> TRUE]

\* the process lives until an exception reaches the event loop
Alive == exc # "uncaught"

\* a step with outcome o in answer to event e
Step(o, e) ==
    /\ device' = o.device
    /\ timers' = o.timers
    /\ out' = o.out
    /\ calls' = o.calls
    /\ exc' = o.exc
    /\ ev' = [e EXCEPT !.branch = o.branch]
    /\ hist' = [ dev    |-> hist.dev \/ o.branch = "dev",
                 bind   |-> hist.bind \/ Sends(o.out, "bind"),
                 bindok |-> hist.bindok \/ o.branch = "bindok",
                 scan   |-> hist.scan \/ Sends(o.out, "scan") ]

Event(kind) == [kind |-> kind, branch |-> "none"]

\* the constructor: _connectToDevice has run once, and socket.bind either
\* threw (onDisconnected, retry in 5 s) or is under way
Init ==
    /\ device = InitDevice
    /\ timers = 0
    /\ out = <<>>
    /\ exc = "none"
    /\ ev = Event("construct")
    /\ hist = [dev |-> FALSE, bind |-> FALSE, bindok |-> FALSE, scan |-> FALSE]
    /\ \/ sock = "binding" /\ calls = <<>>
       \/ sock = "retry" /\ calls = <<"onDisconnected">>

\* the timeout of the catch block: _connectToDevice again
Reconnect ==
    /\ Alive
    /\ sock = "retry"
    /\ \/ sock' = "binding"
          /\ Step(Outcome(device, timers, <<>>, <<>>, "none", "bind"), Event("reconnect"))
       \/ sock' = "retry"
          /\ Step(Outcome(device, timers, <<>>, <<"onDisconnected">>, "none", "catch"),
                  Event("reconnect"))

\* the callback of socket.bind(options.port, ...): the scan
Listening ==
    /\ Alive
    /\ sock = "binding"
    /\ sock' = "listening"
    /\ Step(Outcome(device, timers,
                    <<Datagram(DiscoveryPort, host, Stringify([t |-> "scan"]))>>,
                    <<>>, "none", "scan"),
            [kind |-> "listening", branch |-> "none", port |-> optionsPort(hostParts)])

\* socket.bind fails after it returned: the socket emits 'error'. The Device
\* listens to 'message' only; whether bind itself listens to 'error' while a
\* callback waits depends on the version of dgram, so the event is either
\* thrown to the event loop or lost
BindError ==
    /\ Alive
    /\ sock = "binding"
    /\ sock' = "idle"
    /\ \/ Step(Outcome(device, timers, <<>>, <<>>, "uncaught", "throw"), Event("error"))
       \/ Step(Outcome(device, timers, <<>>, <<>>, "none", "lost"), Event("error"))

\* a 'message' event of the socket
Receive ==
    /\ Alive
    /\ sock = "listening"
    /\ \E msg \in Datagrams, rinfo \in Rinfos :
         LET o   == _handleResponse(device, timers, msg, rinfo)
             m   == Parse(msg)
             dec == o.branch \notin {"discard", "throw", "unreadable"}
         IN  /\ o.timers <= MaxTimers
             /\ Step(o, [ kind    |-> "message",
                          branch  |-> "none",
                          address |-> rinfo.address,
                          port    |-> IF o.branch = "dev" THEN rinfo.port ELSE NoPort,
                          cid     |-> IF dec THEN Get(m, "cid") ELSE Undefined,
                          pack    |-> IF dec THEN Parse(m.pack.str) ELSE NoPack ])
    /\ UNCHANGED sock

\* one of the intervals elapses: _requestDeviceStatus, outside any try block
Tick ==
    /\ Alive
    /\ timers > 0
    /\ LET snd == _requestDeviceStatus(device)
       IN  IF snd.ok
           THEN Step(Outcome(device, timers, <<snd.val>>, <<>>, "none", "status"),
                     Event("tick"))
           ELSE Step(Outcome(device, timers, <<>>, <<>>, "uncaught", "throw"),
                     Event("tick"))
    /\ UNCHANGED sock

\* a caller's set* call: _sendCommand(commands, values)
Command(op, commands, values) ==
    /\ Alive
    /\ LET snd == _sendCommand(device, commands, values)
       IN  IF snd.ok
           THEN Step(Outcome(device, timers, <<snd.val>>, <<>>, "none", "cmd"),
                     [Event("call") EXCEPT !.kind = op])
           ELSE Step(Outcome(device, timers, <<>>, <<>>, "caller", "throw"),
                     [Event("call") EXCEPT !.kind = op])
    /\ UNCHANGED sock

setPower == \E value \in BOOLEAN :
    Command("setPower", <<cmd.power.code>>, <<IF value THEN "1" ELSE "0">>)

setTemp == \E value \in {"24"} :
    Command("setTemp", <<cmd.temperatureUnit.code, cmd.temperature.code>>,
            <<celsius, value>>)

setMode == \E value \in {"1"} :
    Command("setMode", <<cmd.mode.code>>, <<value>>)

setFanSpeed == \E value \in {"1"} :
    Command("setFanSpeed", <<cmd.fanSpeed.code>>, <<value>>)

setSwingVert == \E value \in {"1"} :
    Command("setSwingVert", <<cmd.swingVert.code>>, <<value>>)

Next ==
    \/ Reconnect
    \/ Listening
    \/ BindError
    \/ Receive
    \/ Tick
    \/ setPower
    \/ setTemp
    \/ setMode
    \/ setFanSpeed
    \/ setSwingVert

Spec == Init /\ [][Next]_vars

----------------------------------------------------------------------------
(* Properties *)

\* the last step handled a datagram
OnMessage == ev.kind = "message"

\* the step about to be taken handles a datagram
OnMessageNext == ev'.kind = "message"

\* out holds exactly one bind request, encrypted as given
OneBind(o, alg, keys, tagged) ==
    /\ Len(o) = 1
    /\ Kind(o[1]) = "bind"
    /\ LET m == Parse(o[1].data)
       IN  /\ m.pack.alg = alg
           /\ m.pack.key \in keys
           /\ Has(m, "tag") = tagged

\* the codes of a list
Codes(cols) == {cols[i] : i \in DOMAIN cols}

\* the value a reply gives at position i: undefined past the end of the list
ValueAt(values, i) == IF i <= Len(values) THEN values[i] ELSE Undefined

\* position i is the last one of its code in cols
LastOf(cols, i) == \A j \in DOMAIN cols : cols[j] = cols[i] => j <= i

(* C1: a datagram whose sender is not options.host changes no field of the
   session, sends nothing, starts no interval and invokes no callback,
   whatever it holds. *)
C1_UnexpectedSenderIgnored ==
    [][(OnMessageNext /\ ev'.address # host) =>
         /\ device' = device
         /\ timers' = timers
         /\ out' = <<>>
         /\ calls' = <<>>
         /\ exc' = "none"]_vars

\* a bound session with properties has just discarded a datagram of another address
C1_Witness ==
    /\ OnMessage
    /\ ev.address = otherAddress
    /\ ev.branch = "discard"
    /\ device.bound
    /\ device.props # EmptyObj
    /\ calls = <<>>

(* C2: while bound is false, a decrypted dat or res payload from
   options.host leaves props as it was, invokes neither onStatus nor
   onUpdate, and is reported through onError. *)
C2_NoResponseAcceptedUnbound ==
    [][(/\ OnMessageNext
        /\ ev'.address = host
        /\ Get(ev'.pack, "t") \in {"dat", "res"}
        /\ ~device.bound) =>
         /\ device'.props = device.props
         /\ calls' = <<"onError">>]_vars

\* an identified, unbound session has just refused a dat or res payload
C2_Witness ==
    /\ OnMessage
    /\ ev.address = host
    /\ Get(ev.pack, "t") \in {"dat", "res"}
    /\ ev.branch = "unexpected"
    /\ hist.dev
    /\ ~device.bound
    /\ calls = <<"onError">>

(* C3: whenever a status request or a cmd request is sent, bound is true. *)
C3_RequestsOnlyWhileBound ==
    (Sends(out, "status") \/ Sends(out, "cmd")) => device.bound

(* C4: the step that accepts a bindok sends one status request at once. *)
C4_StatusSentOnBindok ==
    (OnMessage /\ ev.branch = "bindok") =>
        (Len(out) = 1 /\ Kind(out[1]) = "status")

(* C5: a dev reply whose ver begins with "V2.", received from options.host
   on an unbound session, sets encryptionV2 and is followed by a bind
   request encrypted with the authenticated scheme under the default key,
   in an envelope that carries a tag. *)
C5_V2HandshakeSendsTaggedBind ==
    [][(/\ OnMessageNext
        /\ ev'.branch = "dev"
        /\ VersionIsV2(ev'.pack)
        /\ ~device.bound) =>
         /\ device'.encryptionV2
         /\ OneBind(out', "gcm", {defaultKey, defaultKey_v2}, TRUE)]_vars

(* C6, as stated: a dev reply whose ver is missing or does not begin with
   "V2." leaves encryptionV2 as it was, takes the identity from the
   envelope's cid, and sends a bind request encrypted with the legacy scheme
   under the default key, with no tag. *)
C6_Original ==
    [][(/\ OnMessageNext
        /\ ev'.branch = "dev"
        /\ ~VersionIsV2(ev'.pack)) =>
         /\ device'.encryptionV2 = device.encryptionV2
         /\ device'.id = ev'.cid
         /\ OneBind(out', "ecb", {defaultKey}, FALSE)]_vars

(* C6, amended: such a reply leaves encryptionV2 as it was and takes the
   identity from the envelope's cid; when encryptionV2 was not set, the bind
   request encrypted with the legacy scheme under the default key, with no
   tag, is sent. *)
C6_LegacyHandshake ==
    [][(/\ OnMessageNext
        /\ ev'.branch = "dev"
        /\ ~VersionIsV2(ev'.pack)) =>
         /\ device'.encryptionV2 = device.encryptionV2
         /\ device'.id = ev'.cid
         /\ (~device.encryptionV2 => OneBind(out', "ecb", {defaultKey}, FALSE))]_vars

\* a legacy session has just answered a dev reply without a V2 version
C6_Witness ==
    /\ OnMessage
    /\ ev.branch = "dev"
    /\ ~VersionIsV2(ev.pack)
    /\ ~device.encryptionV2
    /\ device.id = "cidM"
    /\ OneBind(out, "ecb", {defaultKey}, FALSE)

(* C7: a datagram from options.host that cannot be read, or whose inner
   type is not valid in the current phase, results in exactly one onError,
   and no exception leaves _handleResponse. *)
C7_UnreadableReportedOnce ==
    (/\ OnMessage
     /\ ev.address = host
     /\ ev.branch \in {"throw", "unreadable", "unexpected"}) =>
        (calls = <<"onError">> /\ exc = "none")

(* C8: when the handling of a datagram ends in onError, the session and the
   set of running intervals are as they were before, and nothing was sent. *)
C8_ErrorLeavesStateUnchanged ==
    [][(/\ OnMessageNext
        /\ \E i \in DOMAIN calls' : calls'[i] = "onError") =>
         /\ device' = device
         /\ timers' = timers
         /\ out' = <<>>]_vars

(* C9: a bind request is sent only after a dev reply was accepted; bound
   becomes true only after a dev reply was accepted and its bind request
   sent; every status and cmd request is sent only after a bindok was
   accepted. *)
C9_HandshakeBindPollOrder ==
    /\ hist.bind => hist.dev
    /\ hist.bindok => (hist.dev /\ hist.bind)
    /\ (Sends(out, "status") \/ Sends(out, "cmd")) => hist.bindok

(* C10, as stated: after a dat reply accepted while bound, props[cols[i]]
   is dat[i] at every position i of cols, every other entry of props is
   unchanged, bound, key and identity are unchanged, and onStatus is
   invoked exactly once and onError not at all. *)
C10_Original ==
    [][(OnMessageNext /\ ev'.branch = "dat") =>
         LET cols == ev'.pack.cols
             dat  == IF Has(ev'.pack, "dat") THEN ev'.pack.dat ELSE <<>>
         IN  /\ device.bound
             /\ \A i \in DOMAIN cols :
                    /\ cols[i] \in DOMAIN device'.props
                    /\ device'.props[cols[i]] = ValueAt(dat, i)
             /\ DOMAIN device'.props = (DOMAIN device.props) \cup Codes(cols)
             /\ \A k \in (DOMAIN device.props) \ Codes(cols) :
                    device'.props[k] = device.props[k]
             /\ [device' EXCEPT !.props = EmptyObj] = [device EXCEPT !.props = EmptyObj]
             /\ calls' = <<"onStatus">>]_vars

(* C10, amended: after a dat reply accepted while bound, props[cols[i]] is
   dat[i] at every position i that is the last one of its code in cols,
   every other entry of props is unchanged, bound, key and identity are
   unchanged, and onStatus is invoked exactly once and onError not at all. *)
C10_DatUpdatesProps ==
    [][(OnMessageNext /\ ev'.branch = "dat") =>
         LET cols == ev'.pack.cols
             dat  == IF Has(ev'.pack, "dat") THEN ev'.pack.dat ELSE <<>>
         IN  /\ device.bound
             /\ \A i \in DOMAIN cols :
                    /\ cols[i] \in DOMAIN device'.props
                    /\ LastOf(cols, i) => device'.props[cols[i]] = ValueAt(dat, i)
             /\ DOMAIN device'.props = (DOMAIN device.props) \cup Codes(cols)
             /\ \A k \in (DOMAIN device.props) \ Codes(cols) :
                    device'.props[k] = device.props[k]
             /\ [device' EXCEPT !.props = EmptyObj] = [device EXCEPT !.props = EmptyObj]
             /\ calls' = <<"onStatus">>]_vars

\* a bound session has just taken Pow and Mod from a dat reply
C10_Witness ==
    /\ OnMessage
    /\ ev.branch = "dat"
    /\ ev.pack.cols = <<"Pow", "Mod">>
    /\ ev.pack.dat = <<"1", "2">>
    /\ device.bound
    /\ device.props = [Pow |-> "1", Mod |-> "2"]
    /\ calls = <<"onStatus">>

\* the list a res reply takes its values from: val when present, p otherwise
ResValues(pack) ==
    IF Has(pack, "val") THEN pack.val
    ELSE IF Has(pack, "p") THEN pack.p ELSE <<>>

(* C11, as stated: after a res reply accepted while bound, for each position
   i of opt, props[opt[i]] is val[i] when the reply has val, and p[i] when
   val is absent and p is present; onUpdate is invoked exactly once. *)
C11_Original ==
    [][(OnMessageNext /\ ev'.branch = "res") =>
         LET opt == ev'.pack.opt
         IN  /\ device.bound
             /\ \A i \in DOMAIN opt :
                    /\ opt[i] \in DOMAIN device'.props
                    /\ device'.props[opt[i]] = ValueAt(ResValues(ev'.pack), i)
             /\ calls' = <<"onUpdate">>]_vars

(* C11, amended: after a res reply accepted while bound, for each position i
   that is the last one of its code in opt, props[opt[i]] is val[i] when the
   reply has val, and p[i] when val is absent and p is present; onUpdate is
   invoked exactly once. *)
C11_ResUpdatesProps ==
    [][(OnMessageNext /\ ev'.branch = "res") =>
         LET opt == ev'.pack.opt
         IN  /\ device.bound
             /\ \A i \in DOMAIN opt :
                    /\ opt[i] \in DOMAIN device'.props
                    /\ LastOf(opt, i) =>
                         device'.props[opt[i]] = ValueAt(ResValues(ev'.pack), i)
             /\ calls' = <<"onUpdate">>]_vars

\* a bound session has just taken Pow from the val of a res reply that also has p
C11_Witness ==
    /\ OnMessage
    /\ ev.branch = "res"
    /\ Has(ev.pack, "val")
    /\ Has(ev.pack, "p")
    /\ ev.pack.val[1] # ev.pack.p[1]
    /\ device.bound
    /\ device.props[ev.pack.opt[1]] = ev.pack.val[1]
    /\ calls = <<"onUpdate">>

(* C12: whenever the bind attempted by _connectToDevice fails,
   onDisconnected is invoked once for that failure and another attempt is
   scheduled; no scan is sent before a bind succeeds. *)
C12_BindFailureRetried ==
    /\ (ev.kind = "error" \/ (ev.kind = "reconnect" /\ ev.branch = "catch")) =>
           (calls = <<"onDisconnected">> /\ sock = "retry" /\ exc = "none")
    /\ hist.scan => sock = "listening"

----------------------------------------------------------------------------
(* The authenticated scheme on its own: encrypt_v2, a tag that is kept or
   replaced on the way, decrypt_v2 *)

\* the requests the session encrypts, beside the payloads a device sends
CodecPayloads ==
    Packs \cup { [mac |-> "cidM", t |-> "bind", uid |-> 0],
                 [cols |-> cmdCodes, mac |-> "cidM", t |-> "status"],
                 [opt |-> <<"Pow">>, p |-> <<"1">>, t |-> "cmd"] }

CodecKeys == {defaultKey, defaultKey_v2, sessionKey}

\* the tags that may arrive in place of the one made for the ciphertext c
OtherTags(c) ==
    {CorruptedTag(c), TruncatedTag(c)}
    \cup {AuthTag(k, c.str) : k \in CodecKeys \ {c.key}}
    \cup {[AuthTag(c.key, c.str) EXCEPT !.len = 3]}

CodecState(stage, payload, key, made, tag, result) ==
    [ kind |-> "codec", branch |-> stage, payload |-> payload, key |-> key,
      made |-> made, tag |-> tag, result |-> result ]

CodecIdle == UNCHANGED <<device, timers, sock, out, calls, exc, hist>>

CodecInit ==
    /\ device = InitDevice
    /\ timers = 0
    /\ sock = "idle"
    /\ out = <<>>
    /\ calls = <<>>
    /\ exc = "none"
    /\ hist = [dev |-> FALSE, bind |-> FALSE, bindok |-> FALSE, scan |-> FALSE]
    /\ \E payload \in CodecPayloads, key \in CodecKeys :
         LET made == encrypt_v2(payload, key)
         IN  ev = CodecState("encrypted", payload, key, made.val, made.val.tag,
                             Throw("none"))

\* the tag is replaced on the way
CodecTamper ==
    /\ ev.kind = "codec"
    /\ ev.branch = "encrypted"
    /\ \E tag \in OtherTags(ev.made.pack) :
         ev' = [ev EXCEPT !.branch = "tampered", !.tag = tag]
    /\ CodecIdle

\* decrypt_v2 of the pack with the tag that arrived, under the same key
CodecDecrypt ==
    /\ ev.kind = "codec"
    /\ ev.branch \in {"encrypted", "tampered"}
    /\ ev' = [ev EXCEPT !.branch = "decrypted",
                        !.result = decrypt_v2([pack |-> ev.made.pack], ev.tag, ev.key)]
    /\ CodecIdle

CodecNext ==
    \/ CodecTamper
    \/ CodecDecrypt

CodecSpec == CodecInit /\ [][CodecNext]_vars

(* C13: decrypt_v2 of the pack and tag made by encrypt_v2(P, K), under the
   same K, returns P; with any other tag it fails instead of returning a
   payload. *)
C13_V2RoundTrip ==
    (ev.kind = "codec" /\ ev.branch = "decrypted") =>
        IF ev.tag = ev.made.tag
        THEN ev.result = Ok(ev.payload)
        ELSE ~ev.result.ok

----------------------------------------------------------------------------
(* C14: once a handshake reply has been accepted, no later step changes
   device.id, device.name or device.encryptionV2. *)
C14_IdentityWriteOnce ==
    [][hist.dev => /\ device'.id = device.id
                   /\ device'.name = device.name
                   /\ device'.encryptionV2 = device.encryptionV2]_vars

----------------------------------------------------------------------------
\* the default key of the scheme an envelope uses
DefaultKeyOf(m) == IF Has(m, "tag") THEN defaultKey_v2 ELSE defaultKey

\* the key of the most recently accepted bindok; the default key while no
\* bindok has brought one
KeyInUse(m) == IF device.key # Undefined THEN device.key ELSE DefaultKeyOf(m)

\* an envelope as a device makes it: a JSON payload, a legacy pack without
\* tag or an authenticated pack with the tag made for it
WellFormed(m) ==
    /\ Has(m, "pack")
    /\ IsJson(m.pack.str)
    /\ IF Has(m, "tag")
       THEN m.pack.alg = "gcm" /\ m.tag = AuthTag(m.pack.key, m.pack.str)
       ELSE m.pack.alg = "ecb"

C15_BindKey ==
    \A i \in DOMAIN out :
        Kind(out[i]) = "bind" =>
            LET m == Parse(out[i].data) IN m.pack.key = DefaultKeyOf(m)

C15_RequestKey ==
    hist.bindok =>
        \A i \in DOMAIN out :
            Kind(out[i]) \in {"status", "cmd"} =>
                LET m == Parse(out[i].data) IN m.pack.key = KeyInUse(m)

C15_InboundKey ==
    (Alive /\ sock = "listening") =>
        \A msg \in {x \in Datagrams : IsJson(x)} :
            LET m == Parse(msg)
                o == _handleResponse(device, timers, msg,
                                     [address |-> host, port |-> DiscoveryPort])
            IN  WellFormed(m) =>
                    (o.branch # "unreadable" <=> m.pack.key = KeyInUse(m))

(* C15: every bind request is encrypted with the default key; every status
   or cmd request sent after a bindok was accepted is encrypted with the key
   of the most recently accepted bindok; an inbound datagram is readable
   exactly when it was encrypted with the default key, until a bindok has
   brought a session key, and with the stored session key from then on. *)
C15_KeySelection == C15_BindKey /\ C15_RequestKey /\ C15_InboundKey

----------------------------------------------------------------------------
\* the requests among the datagrams o (all but the scan) go to address, port
SentTo(o, address, port) ==
    \A i \in DOMAIN o :
        Kind(o[i]) # "scan" => (o[i].address = address /\ o[i].port = port)

\* a step records the sender of an accepted dev datagram and nothing else as
\* the destination, and sends its requests there
DestinationStep ==
    /\ IF ev'.branch = "dev"
       THEN device'.address = ev'.address /\ device'.port = ev'.port
       ELSE device'.address = device.address /\ device'.port = device.port
    /\ SentTo(out', device'.address, device'.port)
    /\ \A i \in DOMAIN out' : out'[i].address # Undefined /\ out'[i].port # NoPort
    /\ device'.address # Undefined => device'.address = host

(* C16 as stated: every bind, status and cmd request goes to the address and
   port recorded from the most recently accepted dev datagram, never to the
   discovery port 7000 and never to an unset address; device.address, when
   set, is the configured host. *)
C16_Original ==
    [][/\ DestinationStep
       /\ \A i \in DOMAIN out' :
              Kind(out'[i]) # "scan" => out'[i].port # DiscoveryPort]_vars

(* C16: every bind, status and cmd request goes to the address and port
   recorded from the most recently accepted dev datagram, which are the
   address and port that datagram came from (port 7000 when the device
   answers from its discovery port), never to an unset address;
   device.address, when set, is the configured host. *)
C16_Destination == [][DestinationStep]_vars

\* after a dev reply from another port than 7000 and a bindok, a status
\* request went to that port at the configured host
C16_Witness ==
    /\ \E i \in DOMAIN out : /\ Kind(out[i]) = "status"
                             /\ out[i].address = host
                             /\ out[i].port = EphemeralPort
    /\ device.port = EphemeralPort
    /\ hist.bindok

----------------------------------------------------------------------------
\* new keeps every entry of old, and differs from old at most at the codes
KeepsBut(old, new, codes) ==
    /\ DOMAIN old \subseteq DOMAIN new
    /\ \A k \in DOMAIN new : k \notin codes => (k \in DOMAIN old /\ new[k] = old[k])

(* C17: props is emptied only by a step that accepts a dev reply (the start
   of a binding cycle); every other step keeps every entry of props: an
   accepted dat or res reply adds or overwrites the codes it lists and
   nothing else, and every other datagram (unreadable, unexpected, malformed,
   from another sender), timer tick or caller command leaves props as it
   was. *)
C17_PropsResetOnlyByRebinding ==
    [][IF ev'.branch = "dev" THEN device'.props = EmptyObj
       ELSE IF ev'.branch = "dat"
            THEN KeepsBut(device.props, device'.props, Codes(ev'.pack.cols))
       ELSE IF ev'.branch = "res"
            THEN KeepsBut(device.props, device'.props, Codes(ev'.pack.opt))
       ELSE device'.props = device.props]_vars

\* a dat reply was accepted and an entry it does not list is still in props
C17_Witness ==
    /\ ev.kind = "message"
    /\ ev.branch = "dat"
    /\ \E k \in DOMAIN device.props : k \notin Codes(ev.pack.cols)

----------------------------------------------------------------------------
(* C18: every envelope the session sends (bind, status, cmd) carries a tag
   exactly when its pack was made by the authenticated scheme, and that is
   the case exactly when device.encryptionV2 is true as it is sent; the scan
   is the bare object {t: "scan"}. *)
C18_TagIffAuthenticated ==
    \A i \in DOMAIN out :
        LET m == Parse(out[i].data)
        IN  IF Kind(out[i]) = "scan" THEN m = [t |-> "scan"]
            ELSE /\ Has(m, "tag") <=> m.pack.alg = "gcm"
                 /\ m.pack.alg = "gcm" <=> device.encryptionV2

\* a request went out under the authenticated scheme, with its tag
C18_Witness ==
    \E i \in DOMAIN out :
        LET m == Parse(out[i].data)
        IN  /\ Kind(out[i]) \in {"status", "cmd"}
            /\ device.encryptionV2
            /\ Has(m, "tag")
            /\ m.tag = AuthTag(device.key, m.pack.str)

----------------------------------------------------------------------------
\* the decimal digits of n
RECURSIVE Decimal(_)
Decimal(n) ==
    LET digit == <<"0", "1", "2", "3", "4", "5", "6", "7", "8", "9">>[(n % 10) + 1]
    IN  IF n < 10 THEN <<digit>> ELSE Append(Decimal(n \div 10), digit)

\* the parts of the address 192.168.1.n
AddressEndingIn(n) == <<Decimal(192), Decimal(168), Decimal(1), Decimal(n)>>

(* C19: when the local bind succeeds exactly one scan, the bare object
   {t: "scan"}, is sent to port 7000 at the configured host; nothing is sent
   before it and no scan is sent at any other time; the port bound is 8000
   plus the last octet of the configured address, which for every last octet
   lies in 8000..8255. *)
C19_ScanOnBind ==
    /\ ev.kind = "listening" =>
           /\ out = <<Datagram(7000, host, Stringify([t |-> "scan"]))>>
           /\ hostParts = AddressEndingIn(10)
           /\ ev.port = 8000 + 10
           /\ \A n \in 0..255 :
                  /\ optionsPort(AddressEndingIn(n)) = 8000 + n
                  /\ optionsPort(AddressEndingIn(n)) \in 8000..8255
    /\ Sends(out, "scan") => ev.kind = "listening"
    /\ ~hist.scan => out = <<>>

\* the bind has just succeeded and the scan is the one datagram sent so far
C19_Witness ==
    /\ ev.kind = "listening"
    /\ sock = "listening"
    /\ Len(out) = 1
    /\ Kind(out[1]) = "scan"
    /\ ~hist.dev

----------------------------------------------------------------------------
(* C20: at most one status-poll interval is running at any time, whatever
   datagrams arrive from the configured host. *)
C20_AtMostOnePollTimer == timers <= 1

=============================================================================
